---- MODULE Spec2Model ----
(***************************************************************************)
(* BPE tokenizer training (cs336_basics/Part2/BPETokenizerTraining.py).    *)
(* Bytes are integers 0..255, byte strings are sequences of bytes, Python  *)
(* strings are sequences of code points, offsets and cursors are 0-based   *)
(* as in the source.                                                       *)
(***************************************************************************)
EXTENDS Integers, Sequences, FiniteSets, TLC

\* ---------------------------------------------------------------- bounds
\* longest corpus (file) in bytes
MaxLen == 4
\* largest num_process
MaxProc == 3
\* read-ahead window of find_chunk_boundaries: 4096 in the source, scaled
\* down so that a search spans several windows inside MaxLen bytes
mini_chunk_size == 2
\* number of single-byte entries of the base vocabulary
NumBytes == 256

\* the bytes a corpus is drawn from ("a", "b")
CorpusBytes == {97, 98}
\* the special-token lists: [], [""], ["aa"], ["ab"], ["ab", "ab"], ["a", "aa"]
SpecialLists == {<<>>, <<<<>>>>, <<<<97, 97>>>>, <<<<97, 98>>>>,
                 <<<<97, 98>>, <<97, 98>>>>, <<<<97>>, <<97, 97>>>>}
\* target vocabulary sizes: below, at and above the base size
TargetSizes == {255, 257, 259}

SeqsUpTo(S, n) == UNION {[1..k -> S] : k \in 0..n}

Min(S) == CHOOSE x \in S : \A y \in S : x <= y
Max(S) == CHOOSE x \in S : \A y \in S : x >= y

\* ------------------------------------------------------- python built-ins
\* one code point as UTF-8 (str.encode("utf-8"))
Utf8Char(c) ==
    IF c < 128 THEN <<c>>
    ELSE IF c < 2048 THEN <<192 + (c \div 64), 128 + (c % 64)>>
    ELSE IF c < 65536
         THEN <<224 + (c \div 4096), 128 + ((c \div 64) % 64), 128 + (c % 64)>>
         ELSE <<240 + (c \div 262144), 128 + ((c \div 4096) % 64),
                128 + ((c \div 64) % 64), 128 + (c % 64)>>

RECURSIVE Utf8Encode(_)
Utf8Encode(s) == IF s = <<>> THEN <<>> ELSE Utf8Char(Head(s)) \o Utf8Encode(Tail(s))

\* b[i:j] with 0 <= i, j possibly past the end
Slice(b, i, j) == SubSeq(b, i + 1, IF j < Len(b) THEN j ELSE Len(b))

\* b.startswith(p)
StartsWith(b, p) == Len(p) <= Len(b) /\ SubSeq(b, 1, Len(p)) = p

\* b.find(sub): lowest 0-based index of sub in b, -1 when absent
Find(b, sub) ==
    LET hits == {i \in 0..(Len(b) - Len(sub)) : Slice(b, i, i + Len(sub)) = sub}
    IN  IF hits = {} THEN -1 ELSE Min(hits)

\* sorted(set(xs))
RECURSIVE SortedSet(_)
SortedSet(S) == IF S = {} THEN <<>> ELSE <<Min(S)>> \o SortedSet(S \ {Min(S)})

\* d[k] = v on a dict
DictSet(d, k, v) == [x \in DOMAIN d \cup {k} |-> IF x = k THEN v ELSE d[x]]

\* ------------------------------------------------- find_chunk_boundaries
\* the `while True` read-ahead loop for one boundary guess
RECURSIVE SearchBoundary(_, _, _)
SearchBoundary(file, initial_position, split_special_token) ==
    LET mini_chunk == Slice(file, initial_position, initial_position + mini_chunk_size)
        found_at == Find(mini_chunk, split_special_token)
    IN  IF mini_chunk = <<>> THEN Len(file)
        ELSE IF found_at # -1 THEN initial_position + found_at
        ELSE SearchBoundary(file, initial_position + mini_chunk_size, split_special_token)

\* boundary bi unmoved from its uniform guess
KeepGuess(file, initial_position, split_special_token) == initial_position

\* the boundary the loop body stores for the guess at initial_position
LocateBoundary(file, initial_position, split_special_token) ==
    SearchBoundary(file, initial_position, split_special_token)

find_chunk_boundaries(file, desired_num_chunks, split_special_token) ==
    LET file_size == Len(file)
        chunk_size == file_size \div desired_num_chunks
        guess == [i \in 0..desired_num_chunks |->
                     IF i = desired_num_chunks THEN file_size ELSE i * chunk_size]
        chunk_boundaries == [i \in 0..desired_num_chunks |->
                     IF 1 <= i /\ i <= desired_num_chunks - 1
                     THEN LocateBoundary(file, guess[i], split_special_token)
                     ELSE guess[i]]
    IN  SortedSet({chunk_boundaries[i] : i \in 0..desired_num_chunks})

\* ------------------------------------------------------------ chunk2token
\* bytes_to_id = {v: k for k, v in vocab.items()}: the last key wins
BytesIn(vocab, b) == \E k \in DOMAIN vocab : vocab[k] = b
BytesToId(vocab, b) == Max({k \in DOMAIN vocab : vocab[k] = b})

\* indices (1-based) of the special tokens the `for` loop accepts at cursor i
Accepted(chunk, special_tokens, vocab, i) ==
    {j \in 1..Len(special_tokens) :
        /\ StartsWith(Slice(chunk, i, Len(chunk)), Utf8Encode(special_tokens[j]))
        /\ BytesIn(vocab, Utf8Encode(special_tokens[j]))}

\* the scan taking the last accepted special token instead of the first
PickLast(S) == Max(S)

\* the special token the `for` loop stops at: the first accepted one
PickSpecial(S) == Min(S)

\* one iteration of the `while i < len(chunk)` loop
chunk2token_step(chunk, special_tokens, vocab, i, result) ==
    LET acc == Accepted(chunk, special_tokens, vocab, i)
    IN  IF acc # {}
        THEN LET special_byte == Utf8Encode(special_tokens[PickSpecial(acc)])
             IN  [i |-> i + Len(special_byte),
                  result |-> Append(result, BytesToId(vocab, special_byte))]
        ELSE LET byte == <<chunk[i + 1]>>
             IN  [i |-> i + 1,
                  result |-> IF BytesIn(vocab, byte)
                             THEN Append(result, BytesToId(vocab, byte))
                             ELSE result]

\* ------------------------------------------------------------ count_pairs
\* the dict in insertion order: a sequence of [key, count] entries
RECURSIVE CountFrom(_, _, _)
CountFrom(tokens, i, pairs_num) ==
    IF i > Len(tokens) - 1 THEN pairs_num
    ELSE LET twotoken == <<tokens[i], tokens[i + 1]>>
             at == {n \in 1..Len(pairs_num) : pairs_num[n].key = twotoken}
         IN  CountFrom(tokens, i + 1,
                 IF at = {}
                 THEN Append(pairs_num, [key |-> twotoken, count |-> 1])
                 ELSE [pairs_num EXCEPT ![Min(at)].count = @ + 1])

count_pairs(tokens) == CountFrom(tokens, 1, <<>>)

\* max(pair_counts, key=pair_counts.get): the first key, in insertion order,
\* among those of maximal count
PyMaxKey(pair_counts) ==
    LET top == Max({pair_counts[n].count : n \in 1..Len(pair_counts)})
    IN  pair_counts[Min({n \in 1..Len(pair_counts) : pair_counts[n].count = top})].key

\* --------------------------------------------------- merge_pair_in_tokens
RECURSIVE MergeFrom(_, _, _, _, _)
MergeFrom(tokens, pairs, new_token_id, i, new_token) ==
    IF ~(i < Len(tokens)) THEN new_token
    ELSE IF i < Len(tokens) - 1 /\ tokens[i + 1] = pairs[1] /\ tokens[i + 2] = pairs[2]
         THEN MergeFrom(tokens, pairs, new_token_id, i + 2, Append(new_token, new_token_id))
         ELSE MergeFrom(tokens, pairs, new_token_id, i + 1, Append(new_token, tokens[i + 1]))

\* the pass re-examining the second element of a replaced pair
RECURSIVE MergeOverlapFrom(_, _, _, _, _)
MergeOverlapFrom(tokens, pairs, new_token_id, i, new_token) ==
    IF ~(i < Len(tokens)) THEN new_token
    ELSE IF i < Len(tokens) - 1 /\ tokens[i + 1] = pairs[1] /\ tokens[i + 2] = pairs[2]
         THEN MergeOverlapFrom(tokens, pairs, new_token_id, i + 1, Append(new_token, new_token_id))
         ELSE MergeOverlapFrom(tokens, pairs, new_token_id, i + 1, Append(new_token, tokens[i + 1]))

MergeOverlapping(tokens, pairs, new_token_id) ==
    MergeOverlapFrom(tokens, pairs, new_token_id, 0, <<>>)

merge_pair_in_tokens(tokens, pairs, new_token_id) ==
    MergeFrom(tokens, pairs, new_token_id, 0, <<>>)

\* --------------------------------------------------- BPETokenizerTraining
VARIABLES
    corpus,               \* the bytes of `file`
    vocab_size,           \* target vocabulary size
    special_tokens,       \* list of strings
    num_process,          \* parallelism
    pc,                   \* position of the driver
    vocab,                \* dict id -> bytes
    merge,                \* list of (bytes, bytes)
    all_tokens,           \* the token sequence
    boundaries,           \* result of find_chunk_boundaries
    chunks,               \* the byte chunks handed to the workers
    cursor,               \* per chunk: i of chunk2token
    res,                  \* per chunk: result of chunk2token
    now_vocab_size,       \* set at the start of the merge loop
    max_count_token_pair, \* the pair selected by the last merge iteration
    stopped               \* how the merge loop was left: "", "target", "empty"

vars == <<corpus, vocab_size, special_tokens, num_process, pc, vocab, merge,
          all_tokens, boundaries, chunks, cursor, res, now_vocab_size,
          max_count_token_pair, stopped>>

inputs == <<corpus, vocab_size, special_tokens, num_process>>

\* lines 160-172: 256 single bytes, then the special tokens from id 256 on
BaseVocab(sp) ==
    [i \in 0..(NumBytes + Len(sp) - 1) |->
        IF i < NumBytes THEN <<i>> ELSE Utf8Encode(sp[i - NumBytes + 1])]

Init ==
    /\ corpus \in SeqsUpTo(CorpusBytes, MaxLen)
    /\ vocab_size \in TargetSizes
    /\ special_tokens \in SpecialLists
    /\ num_process \in 1..MaxProc
    /\ pc = "INIT"
    /\ vocab = BaseVocab(special_tokens)
    /\ merge = <<>>
    /\ all_tokens = <<>>
    /\ boundaries = <<>>
    /\ chunks = <<>>
    /\ cursor = <<>>
    /\ res = <<>>
    /\ now_vocab_size = 0
    /\ max_count_token_pair = <<>>
    /\ stopped = ""

\* a missing separator treated as the empty byte string
DefaultSeparator(sp) ==
    IF sp = <<>> THEN [raised |-> FALSE, value |-> <<>>]
    ELSE [raised |-> FALSE, value |-> Utf8Encode(sp[1])]

\* special_tokens[0].encode("utf-8"): IndexError on an empty list
SeparatorOf(sp) ==
    IF sp = <<>> THEN [raised |-> TRUE, value |-> <<>>]
    ELSE [raised |-> FALSE, value |-> Utf8Encode(sp[1])]

\* each chunk read one byte past its end
ReadChunksOverlap(file, bs) ==
    [n \in 1..(Len(bs) - 1) |-> Slice(file, bs[n], bs[n + 1] + 1)]

\* lines 186-190: the chunks between consecutive boundaries
ReadChunks(file, bs) ==
    [n \in 1..(Len(bs) - 1) |-> Slice(file, bs[n], bs[n + 1])]

\* line 184 with an empty list: the call raises before find_chunk_boundaries
RaiseIndexError ==
    /\ pc = "INIT"
    /\ num_process > 1
    /\ SeparatorOf(special_tokens).raised
    /\ pc' = "ERROR"
    /\ UNCHANGED <<inputs, vocab, merge, all_tokens, boundaries, chunks, cursor, res,
                   now_vocab_size, max_count_token_pair, stopped>>

\* lines 178-195: boundaries, chunks, the pool is handed the chunks
ChunkParallel ==
    /\ pc = "INIT"
    /\ num_process > 1
    /\ ~SeparatorOf(special_tokens).raised
    /\ LET bs == find_chunk_boundaries(corpus, num_process,
                                        SeparatorOf(special_tokens).value)
       IN  /\ boundaries' = bs
           /\ chunks' = ReadChunks(corpus, bs)
           /\ cursor' = [n \in 1..(Len(bs) - 1) |-> 0]
           /\ res' = [n \in 1..(Len(bs) - 1) |-> <<>>]
    /\ pc' = "TOKENIZING"
    /\ UNCHANGED <<inputs, vocab, merge, all_tokens, now_vocab_size,
                   max_count_token_pair, stopped>>

\* lines 201-204: the whole file is one chunk
ReadWhole ==
    /\ pc = "INIT"
    /\ ~(num_process > 1)
    /\ chunks' = <<corpus>>
    /\ cursor' = <<0>>
    /\ res' = <<<<>>>>
    /\ pc' = "TOKENIZING"
    /\ UNCHANGED <<inputs, vocab, merge, all_tokens, boundaries, now_vocab_size,
                   max_count_token_pair, stopped>>

\* one iteration of chunk2token's while loop on chunk n
Chunk2TokenStep(n) ==
    /\ pc = "TOKENIZING"
    /\ cursor[n] < Len(chunks[n])
    \* cap: a scan that advances emits at most len(chunk) tokens; one that
    \* has emitted more is not advancing and is followed no further
    /\ Len(res[n]) <= Len(chunks[n])
    /\ LET st == chunk2token_step(chunks[n], special_tokens, vocab, cursor[n], res[n])
       IN  /\ cursor' = [cursor EXCEPT ![n] = st.i]
           /\ res' = [res EXCEPT ![n] = st.result]
    /\ UNCHANGED <<inputs, pc, vocab, merge, all_tokens, boundaries, chunks, now_vocab_size,
                   max_count_token_pair, stopped>>

RECURSIVE Concat(_)
Concat(ss) == IF ss = <<>> THEN <<>> ELSE Head(ss) \o Concat(Tail(ss))

\* lines 196-198 / 204, 207: every chunk2token has returned
Join ==
    /\ pc = "TOKENIZING"
    /\ \A n \in 1..Len(chunks) : ~(cursor[n] < Len(chunks[n]))
    /\ all_tokens' = Concat(res)
    /\ now_vocab_size' = Cardinality(DOMAIN vocab)
    /\ pc' = "MERGING"
    /\ UNCHANGED <<inputs, vocab, merge, boundaries, chunks, cursor, res,
                   max_count_token_pair, stopped>>

\* the loop run once more when the target is reached
LoopCondLe(now, target) == now <= target

\* line 209
LoopCond(now, target) == now < target

\* the new entry written over the last id
LastId(now) == now - 1

\* line 219
NewTokenId(now) == now

\* lines 209-237: one full iteration of the merge loop
MergeStep ==
    /\ pc = "MERGING"
    /\ LoopCond(now_vocab_size, vocab_size)
    /\ count_pairs(all_tokens) # <<>>
    /\ LET pair == PyMaxKey(count_pairs(all_tokens))
           new_token_id == NewTokenId(now_vocab_size)
           byte1 == vocab[pair[1]]
           byte2 == vocab[pair[2]]
       IN  /\ max_count_token_pair' = pair
           /\ vocab' = DictSet(vocab, new_token_id, byte1 \o byte2)
           /\ merge' = Append(merge, <<byte1, byte2>>)
           /\ all_tokens' = merge_pair_in_tokens(all_tokens, pair, new_token_id)
    /\ now_vocab_size' = now_vocab_size + 1
    /\ UNCHANGED <<inputs, pc, boundaries, chunks, cursor, res, stopped>>

\* lines 212-213, 240: empty table, break and return
BreakEmpty ==
    /\ pc = "MERGING"
    /\ LoopCond(now_vocab_size, vocab_size)
    /\ count_pairs(all_tokens) = <<>>
    /\ pc' = "DONE"
    /\ stopped' = "empty"
    /\ UNCHANGED <<inputs, vocab, merge, all_tokens, boundaries, chunks, cursor, res,
                   now_vocab_size, max_count_token_pair>>

\* lines 209, 240: loop condition false, return
Return ==
    /\ pc = "MERGING"
    /\ ~LoopCond(now_vocab_size, vocab_size)
    /\ pc' = "DONE"
    /\ stopped' = "target"
    /\ UNCHANGED <<inputs, vocab, merge, all_tokens, boundaries, chunks, cursor, res,
                   now_vocab_size, max_count_token_pair>>

Next ==
    \/ RaiseIndexError
    \/ ChunkParallel
    \/ ReadWhole
    \/ \E n \in 1..Len(chunks) : Chunk2TokenStep(n)
    \/ Join
    \/ MergeStep
    \/ BreakEmpty
    \/ Return

Spec == Init /\ [][Next]_vars

\* ------------------------------------------- the functions called alone
\* separators and token ids the stand-alone calls are drawn from
Separators == {<<>>, <<97>>, <<98>>, <<97, 97>>, <<97, 98>>, <<98, 97>>}
TokenIds == {97, 98, 256}
NewIds == {97, 257}

\* find_chunk_boundaries(file, N, separator) for any N >= 1
InitBoundaries ==
    /\ corpus \in SeqsUpTo(CorpusBytes, MaxLen)
    /\ vocab_size = 0
    /\ special_tokens \in {<<sep>> : sep \in Separators}
    /\ num_process \in 1..MaxProc
    /\ pc = "CALL_BOUNDARIES"
    /\ vocab = BaseVocab(special_tokens)
    /\ merge = <<>>
    /\ all_tokens = <<>>
    /\ boundaries = <<>>
    /\ chunks = <<>>
    /\ cursor = <<>>
    /\ res = <<>>
    /\ now_vocab_size = 0
    /\ max_count_token_pair = <<>>
    /\ stopped = ""

CallFindChunkBoundaries ==
    /\ pc = "CALL_BOUNDARIES"
    /\ boundaries' = find_chunk_boundaries(corpus, num_process,
                                           Utf8Encode(special_tokens[1]))
    /\ pc' = "BOUNDARIES"
    /\ UNCHANGED <<inputs, vocab, merge, all_tokens, chunks, cursor, res,
                   now_vocab_size, max_count_token_pair, stopped>>

SpecBoundaries == InitBoundaries /\ [][CallFindChunkBoundaries]_vars

\* merge_pair_in_tokens(tokens, pair, new id) for any tokens, pair and id
InitMerge ==
    /\ corpus = <<>>
    /\ vocab_size = 0
    /\ special_tokens = <<>>
    /\ num_process = 1
    /\ pc = "CALL_MERGE"
    /\ vocab = BaseVocab(<<>>)
    /\ merge = <<>>
    /\ all_tokens \in SeqsUpTo(TokenIds, MaxLen)
    /\ boundaries = <<>>
    /\ chunks = <<>>
    /\ cursor = <<>>
    /\ res = <<>>
    /\ now_vocab_size \in NewIds
    /\ max_count_token_pair \in TokenIds \X TokenIds
    /\ stopped = ""

CallMergePair ==
    /\ pc = "CALL_MERGE"
    /\ all_tokens' = merge_pair_in_tokens(all_tokens, max_count_token_pair,
                                          now_vocab_size)
    /\ pc' = "MERGED"
    /\ UNCHANGED <<inputs, vocab, merge, boundaries, chunks, cursor, res,
                   now_vocab_size, max_count_token_pair, stopped>>

\* the stand-alone calls of merge_pair_in_tokens together with the training runs
SpecMerge == (Init \/ InitMerge) /\ [][Next \/ CallMergePair]_vars

\* ------------------------------------------- whole runs, as one function
\* chunk2token: the while loop run to its end (followed as far as the cap of
\* Chunk2TokenStep follows it)
RECURSIVE Chunk2TokenFrom(_, _, _, _, _)
Chunk2TokenFrom(chunk, sp, vc, i, result) ==
    IF ~(i < Len(chunk)) \/ ~(Len(result) <= Len(chunk))
    THEN [i |-> i, result |-> result]
    ELSE LET st == chunk2token_step(chunk, sp, vc, i, result)
         IN  Chunk2TokenFrom(chunk, sp, vc, st.i, st.result)

chunk2token(chunk, sp, vc) == Chunk2TokenFrom(chunk, sp, vc, 0, <<>>)

\* the merge loop run to its end
RECURSIVE MergeLoop(_, _, _, _, _)
MergeLoop(tokens, vc, mg, now, target) ==
    IF ~LoopCond(now, target) \/ count_pairs(tokens) = <<>>
    THEN [vocab |-> vc, merge |-> mg]
    ELSE LET pair == PyMaxKey(count_pairs(tokens))
             new_token_id == NewTokenId(now)
             byte1 == vc[pair[1]]
             byte2 == vc[pair[2]]
         IN  MergeLoop(merge_pair_in_tokens(tokens, pair, new_token_id),
                       DictSet(vc, new_token_id, byte1 \o byte2),
                       Append(mg, <<byte1, byte2>>), now + 1, target)

\* BPETokenizerTraining(file, vocab_size, special_tokens, 1)
TrainSerial(file, target, sp) ==
    LET vc == BaseVocab(sp)
        scan == chunk2token(file, sp, vc)
    IN  [returns |-> ~(scan.i < Len(file)),
         tokens |-> scan.result,
         out |-> MergeLoop(scan.result, vc, <<>>, Cardinality(DOMAIN vc), target)]

\* ================================================================ claims
Base == NumBytes + Len(special_tokens)

\* the bytes a token sequence stands for
RECURSIVE Decode(_, _)
Decode(tokens, vc) ==
    IF tokens = <<>> THEN <<>> ELSE vc[Head(tokens)] \o Decode(Tail(tokens), vc)

\* ---------------------------------------------------------------- C2
\* C2: find_chunk_boundaries returns a strictly increasing list of at most
\* N+1 offsets that contains 0 and L; every offset other than the first and
\* the last is the start of an occurrence of the separator or equals L; the
\* chunks between consecutive offsets, concatenated, are the corpus.
C2_BoundariesWellFormed ==
    pc = "BOUNDARIES" =>
        LET L == Len(corpus)
            sep == Utf8Encode(special_tokens[1])
            n == Len(boundaries)
        IN  /\ \A i, j \in 1..n : i < j => boundaries[i] < boundaries[j]
            /\ n >= 1 /\ n <= num_process + 1
            /\ boundaries[1] = 0
            /\ boundaries[n] = L
            /\ \A i \in 2..(n - 1) :
                  \/ boundaries[i] = L
                  \/ /\ boundaries[i] + Len(sep) <= L
                     /\ SubSeq(corpus, boundaries[i] + 1, boundaries[i] + Len(sep)) = sep
            /\ Concat(ReadChunks(corpus, boundaries)) = corpus

\* a search that went past the first read-ahead window and found the
\* separator, with three chunks as the result
C2_Witness ==
    /\ pc = "BOUNDARIES"
    /\ Len(boundaries) = 3
    /\ boundaries[2] >= (Len(corpus) \div num_process) + mini_chunk_size
    /\ boundaries[2] < Len(corpus)

\* ---------------------------------------------------------------- C3
Max0(x) == IF x > 0 THEN x ELSE 0

\* C3 as stated: on return the Merge List is no longer than target - base
\* and has exactly that length unless the loop stopped on an empty table.
C3_AsStated ==
    pc = "DONE" =>
        /\ Len(merge) <= vocab_size - Base
        /\ (stopped # "empty" => Len(merge) = vocab_size - Base)

\* C3 (amended): on return the Merge List is no longer than
\* max(0, target - base) and has exactly that length unless the merge loop
\* stopped because the pair frequency table was empty.
C3_MergeListLength ==
    pc = "DONE" =>
        /\ Len(merge) <= Max0(vocab_size - Base)
        /\ (stopped # "empty" => Len(merge) = Max0(vocab_size - Base))

\* a run that made all its target - base = 3 merges, and the case the
\* amendment adds is C3_AsStated's violation (target below base)
C3_Witness ==
    /\ pc = "DONE"
    /\ stopped = "target"
    /\ Len(merge) = 3
    /\ vocab_size - Base = 3

\* ---------------------------------------------------------------- C4
VocabShape ==
    /\ DOMAIN vocab = 0..(Cardinality(DOMAIN vocab) - 1)
    /\ \A i \in 0..(NumBytes - 1) : vocab[i] = <<i>>
    /\ \A k \in 1..Len(special_tokens) :
          vocab[NumBytes + k - 1] = Utf8Encode(special_tokens[k])
    /\ \A k \in 1..Len(merge) : vocab[Base + k - 1] = merge[k][1] \o merge[k][2]
    /\ Cardinality(DOMAIN vocab) = Base + Len(merge)

VocabKept ==
    \A i \in DOMAIN vocab : i \in DOMAIN vocab' /\ vocab'[i] = vocab[i]

\* C4: in every state of a training run the Vocabulary's keys are 0..size-1,
\* ids 0..255 are the single bytes, id 256+k is the encoding of the k-th
\* special token, id base+k is MergeList[k][0] + MergeList[k][1], size is
\* base + number of merges; and no step removes or changes an entry.
C4_VocabularyInvariant == [](VocabShape) /\ [][VocabKept]_vars

C4_Witness ==
    /\ pc = "MERGING"
    /\ Len(special_tokens) = 2
    /\ Len(merge) = 1
    /\ Cardinality(DOMAIN vocab) = 259

\* ---------------------------------------------------------------- C6
\* C6: with parallelism > 1 and no special token the run fails before any
\* chunk is tokenized and before any merge step, and returns nothing: the
\* driver is either about to raise or has raised, and every other variable
\* is as at the start.
C6_FailsBeforeWork ==
    (num_process > 1 /\ special_tokens = <<>>) =>
        /\ pc \in {"INIT", "ERROR"}
        /\ (pc = "INIT" => ENABLED RaiseIndexError)
        /\ boundaries = <<>> /\ chunks = <<>> /\ cursor = <<>> /\ res = <<>>
        /\ all_tokens = <<>> /\ merge = <<>> /\ max_count_token_pair = <<>>
        /\ stopped = ""

C6_Witness == pc = "ERROR" /\ num_process > 1 /\ special_tokens = <<>>

\* ---------------------------------------------------------------- C9
\* C9: at the end of tokenization and after every merge step the entries of
\* the Vocabulary for the ids of the Token Sequence, concatenated in order,
\* are the bytes of the corpus.
C9_TokensSpellCorpus ==
    pc \in {"MERGING", "DONE"} => Decode(all_tokens, vocab) = corpus

\* chunked tokenization followed by two merges
C9_Witness ==
    /\ pc = "DONE"
    /\ num_process > 1
    /\ Len(chunks) >= 2
    /\ Len(merge) >= 2
    /\ Len(all_tokens) < Len(corpus)

\* ---------------------------------------------------------------- C1
\* C1: a run with parallelism N > 1 returns the Vocabulary and the Merge List
\* that the run with parallelism 1 returns on the same corpus, special
\* tokens and target size (the chunks, tokenized and concatenated in chunk
\* order, giving the tokens of one pass over the whole corpus).
C1_ParallelismTransparent ==
    LET serial == TrainSerial(corpus, vocab_size, special_tokens)
    IN  (pc = "DONE" /\ num_process > 1 /\ serial.returns) =>
            /\ vocab = serial.out.vocab
            /\ merge = serial.out.merge

\* ---------------------------------------------------------------- C5
\* byte strings and pairs of byte strings in lexicographic order
BytesLess(x, y) ==
    \E k \in 1..Len(y) :
        /\ \A m \in 1..(k - 1) : m <= Len(x) /\ x[m] = y[m]
        /\ Len(x) >= k - 1
        /\ (k > Len(x) \/ x[k] < y[k])

PairLess(p, q) == BytesLess(p[1], q[1]) \/ (p[1] = q[1] /\ BytesLess(p[2], q[2]))

\* C5: every merge iteration selects a pair of maximal count and, among the
\* pairs of that count, the one whose pair of byte strings is greatest; the
\* corpus a,a,b,a with no special token and target 257 records (b, a).
C5_LexGreatestTieBreak ==
    [][/\ (pc = "MERGING" /\ merge' # merge) =>
            LET table == count_pairs(all_tokens)
                sel == max_count_token_pair'
                bytesOf(pr) == <<vocab[pr[1]], vocab[pr[2]]>>
                selCount == table[CHOOSE n \in 1..Len(table) : table[n].key = sel].count
            IN  /\ \E n \in 1..Len(table) : table[n].key = sel
                /\ \A n \in 1..Len(table) :
                      /\ table[n].count <= selCount
                      /\ table[n].count = selCount =>
                            ~PairLess(bytesOf(sel), bytesOf(table[n].key))
       /\ (pc' = "DONE" /\ corpus = <<97, 97, 98, 97>> /\ special_tokens = <<>>
              /\ vocab_size = 257) => merge' = << <<<<98>>, <<97>>>> >>
      ]_vars

\* ---------------------------------------------------------------- C7
\* positions (1-based) a left-to-right non-overlapping pass replaces: the
\* pair stands there and the position before was not itself replaced
RECURSIVE Replaced(_, _, _)
Replaced(tokens, pair, p) ==
    /\ p >= 1 /\ p < Len(tokens)
    /\ tokens[p] = pair[1] /\ tokens[p + 1] = pair[2]
    /\ ~Replaced(tokens, pair, p - 1)

GreedyReplace(tokens, pair, new) ==
    LET kept == SortedSet({p \in 1..Len(tokens) : ~Replaced(tokens, pair, p - 1)})
    IN  [n \in 1..Len(kept) |->
            IF Replaced(tokens, pair, kept[n]) THEN new ELSE tokens[kept[n]]]

MergeIsGreedy(old, pair, new, out) ==
    /\ out = GreedyReplace(old, pair, new)
    /\ Len(out) = Len(old) - Cardinality({p \in 1..Len(old) : Replaced(old, pair, p)})

\* C7: merge_pair_in_tokens returns the sequence of one greedy left-to-right
\* pass replacing each non-overlapping occurrence of (a, b) by the new id,
\* shorter than its input by the number of replacements; in the training
\* loop every merge makes the Token Sequence strictly shorter.
C7_MergeIsGreedyPass ==
    [][/\ (pc = "CALL_MERGE" /\ pc' = "MERGED") =>
            MergeIsGreedy(all_tokens, max_count_token_pair, now_vocab_size, all_tokens')
       /\ (pc = "MERGING" /\ merge' # merge) =>
            /\ MergeIsGreedy(all_tokens, max_count_token_pair', now_vocab_size,
                             all_tokens')
            /\ Len(all_tokens') < Len(all_tokens)
      ]_vars

\* pair (a, a) on a,a,a has given [new, a]
C7_Witness ==
    /\ pc = "MERGED"
    /\ max_count_token_pair = <<97, 97>>
    /\ now_vocab_size = 257
    /\ all_tokens = <<257, 97>>

\* ---------------------------------------------------------------- C8
\* special tokens (1-based) whose encoding prefixes the suffix at cursor i
Prefixing(chunk, sp, i) ==
    {j \in 1..Len(sp) : StartsWith(SubSeq(chunk, i + 1, Len(chunk)), Utf8Encode(sp[j]))}

\* the step C8 states: the id is 256 + the index of the first such token
StatedStep(chunk, sp, i, result) ==
    LET m == Prefixing(chunk, sp, i)
    IN  IF m # {}
        THEN [i |-> i + Len(Utf8Encode(sp[Min(m)])),
              result |-> Append(result, NumBytes + (Min(m) - 1))]
        ELSE [i |-> i + 1, result |-> Append(result, chunk[i + 1])]

\* the step of the amended C8: the id is 256 + the index of the last list
\* entry with the encoding of the first such token
AmendedStep(chunk, sp, i, result) ==
    LET m == Prefixing(chunk, sp, i)
        same == {j \in 1..Len(sp) : Utf8Encode(sp[j]) = Utf8Encode(sp[Min(m)])}
    IN  IF m # {}
        THEN [i |-> i + Len(Utf8Encode(sp[Min(m)])),
              result |-> Append(result, NumBytes + (Max(same) - 1))]
        ELSE [i |-> i + 1, result |-> Append(result, chunk[i + 1])]

\* C8 as stated: each iteration of chunk2token emits id 256 + index of the
\* first special token, in supplied order, that prefixes the remaining
\* suffix and advances by its length, else emits the byte at the cursor and
\* advances by one.
C8_AsStated ==
    [][\A n \in DOMAIN res :
          (pc = "TOKENIZING" /\ pc' = "TOKENIZING" /\ res'[n] # res[n]) =>
              [i |-> cursor'[n], result |-> res'[n]]
                  = StatedStep(chunks[n], special_tokens, cursor[n], res[n])
      ]_vars

\* C8 (amended): each iteration of chunk2token takes the first special token,
\* in supplied order, that prefixes the remaining suffix, emits 256 + the
\* index of the last list entry equal to that token (its own index when the
\* token is listed once) and advances by its length; else it emits the byte
\* at the cursor (0..255) and advances by one.
C8_FirstMatchLastId ==
    [][\A n \in DOMAIN res :
          (pc = "TOKENIZING" /\ pc' = "TOKENIZING" /\ res'[n] # res[n]) =>
              [i |-> cursor'[n], result |-> res'[n]]
                  = AmendedStep(chunks[n], special_tokens, cursor[n], res[n])
      ]_vars

\* a scan that met a special token listed twice, and one where two listed
\* tokens prefix the suffix and the first was taken
C8_Witness ==
    /\ pc = "TOKENIZING"
    /\ \/ /\ special_tokens = << <<97, 98>>, <<97, 98>> >>
          /\ \E n \in DOMAIN res : res[n] # <<>> /\ res[n][Len(res[n])] = 257
       \/ /\ special_tokens = << <<97>>, <<97, 97>> >>
          /\ \E n \in DOMAIN res :
                /\ chunks[n] = <<97, 97>>
                /\ res[n] = <<256>>
                /\ cursor[n] = 1

\* --------------------------------------------------------------- C10
\* C10 (its clause on chunk2token): every iteration of the scan loop moves
\* the cursor strictly forward, so that the scan ends and the run reaches
\* DONE, also with a special token whose encoding is empty.
C10_CursorAdvances ==
    [][\A n \in DOMAIN res :
          (pc = "TOKENIZING" /\ pc' = "TOKENIZING" /\ res'[n] # res[n]) =>
              cursor'[n] > cursor[n]
      ]_vars

====
